---------------------------- MODULE Spec2Model ----------------------------
(***************************************************************************)
(* Model of the SfM Flow add-on's GCP export operator                      *)
(* (operators/export_gcps.py), of the render-camera list and its camera    *)
(* pointer poll (prefs/properties.py) and of the scene callbacks           *)
(* (utils/callbacks.py).                                                   *)
(*                                                                         *)
(* Numbers.  Python floats are modelled by exact rationals kept as mixed   *)
(* numbers [i, n, d] = i + n/d with 0 <= n < d.  A string produced by      *)
(* NUM_FORMAT ("{:.6f}") is modelled by the integer it shows in units of   *)
(* 10^-DIGITS: "270.000000" is 270000000.                                  *)
(***************************************************************************)
EXTENDS Integers, Sequences, FiniteSets, TLC

VARIABLES
    \* ---- host scene / project state
    geometry,            \* which scene geometry the host oracles answer for
    scene_objects,       \* scene.objects
    render_cameras,      \* scene.sfmflow.render_cameras (entries: camera or None)
    render_cameras_idx,  \* scene.sfmflow.render_cameras_idx
    gcp_collection,      \* get_gcp_collection(create=False)
    frame_start, frame_end, frame_current,
    camera,              \* scene.camera
    resolution,          \* scene.render.resolution_x / _y / _percentage
    file_format,         \* scene.render.image_settings.file_format
    render_file_format,  \* scene.sfmflow.render_file_format
    is_saved, is_dirty,  \* bpy.data.is_saved / is_dirty
    output_path,         \* scene.sfmflow.output_path
    \* ---- file system (the export folder)
    dir_exists, gcp_list, gcp_images_list,
    \* ---- the running operator (locals of execute)
    pc, frame, ci, gi, cameras, gcps, frame_backup, camera_backup,
    render_size, image_filename,
    \* ---- what the operator gave back
    result, report,
    \* ---- history, read by the properties only
    via, pre, evaluated, row_src, exports, completed,
    polled_without_context,  \* an assignment was accepted by a poll that had no context
    \* ---- class Callbacks and what its handlers read and write
    _is_cam_pose_updating,   \* Callbacks._is_cam_pose_updating
    _last_active_camera,     \* Callbacks._last_active_camera
    cb_pc,                   \* where the running cam_pose_update stands
    enum_i,                  \* enumerate: the number of items it has yielded
    filepath,                \* bpy.data.filepath
    render_filepath,         \* scene.render.filepath
    save_stack,              \* the post_save handlers running, innermost last
    \* ---- history of the callbacks, read by the properties only
    cb_pre,                  \* the list and its index when cam_pose_update entered
    cb_runs,                 \* runs of cam_pose_update that went past the guard
    cb_skipped,              \* calls of cam_pose_update that returned at the guard
    user_saves,              \* saves the user asked for
    chain                    \* the save the user asked for last, and its nested saves

callbackVars == <<_is_cam_pose_updating, _last_active_camera, cb_pc, enum_i,
                  filepath, render_filepath, save_stack,
                  cb_pre, cb_runs, cb_skipped, user_saves, chain>>
sceneVars == <<geometry, scene_objects, render_cameras, render_cameras_idx,
               gcp_collection, frame_start, frame_end, resolution,
               render_file_format, is_saved, is_dirty, output_path,
               callbackVars>>
fileVars  == <<dir_exists, gcp_list, gcp_images_list>>
loopVars  == <<frame, ci, gi, cameras, gcps, frame_backup, camera_backup,
               render_size, image_filename>>
histVars  == <<via, pre, evaluated, row_src, exports, completed,
               polled_without_context>>
vars == <<sceneVars, file_format, frame_current, camera, fileVars, pc,
          loopVars, result, report, histVars>>

---------------------------------------------------------------------------
\* Bounds of the model.
MaxFrame   == 2     \* frame_start, frame_end range over 1..MaxFrame
MaxGcps    == 2     \* GCP objects in the GCP collection
MaxExports == 2     \* operator invocations in one behaviour
MaxEntries == 3     \* entries of the render-camera list (camera-list specification)
MaxRuns    == 2     \* runs of cam_pose_update in one behaviour
MaxSkipped == 1     \* calls of cam_pose_update made while one is running
MaxSaves   == 3     \* saves the user asks for in one behaviour
MaxDepth   == 3     \* post_save handlers nested in one another

\* Program constant: digits after the decimal point.
DIGITS == 6

Scale == 10 ^ DIGITS

---------------------------------------------------------------------------
\* Objects.  An object is <<type, k>>; object identity is equality.
None      == <<"NONE", 0>>
Cam(k)    == <<"CAMERA", k>>
Gcp(k)    == <<"EMPTY", k>>
Mesh      == <<"MESH", 1>>
ObjType(obj) == obj[1]
SceneCams == {Cam(1), Cam(2)}      \* camera objects of this scene
OtherCam  == Cam(3)                \* a camera object linked to another scene
AllObjects == SceneCams \cup {OtherCam, Mesh} \cup {Gcp(k) : k \in 1..MaxGcps}

---------------------------------------------------------------------------
\* Exact arithmetic on mixed numbers  i + n/d, 0 <= n < d.
Q(i, n, d) == [i |-> i, n |-> n, d |-> d]
IntQ(k)    == Q(k, 0, 1)
QLess(a, b) == \/ a.i < b.i
               \/ a.i = b.i /\ a.n * b.d < b.n * a.d
\* q * k, k a non-negative integer
QMulInt(q, k) == Q(q.i * k + ((q.n * k) \div q.d), (q.n * k) % q.d, q.d)
\* k - q, k an integer
QSubFromInt(k, q) == IF q.n = 0 THEN Q(k - q.i, 0, q.d)
                     ELSE Q(k - q.i - 1, q.d - q.n, q.d)
\* Python's q % 360 (result has the sign of the divisor)
QMod360(q) == Q(q.i % 360, q.n, q.d)

\* a/d rounded to the nearest integer, ties to even
RoundHalfEven(a, d) ==
    LET q == a \div d
        r == a % d
    IN  IF 2 * r < d THEN q
        ELSE IF 2 * r > d THEN q + 1
        ELSE IF q % 2 = 0 THEN q ELSE q + 1

\* round(n/d * 10^DIGITS), computed from the smaller of n and d-n
RoundFrac(n, d) ==
    IF 2 * n <= d THEN RoundHalfEven(n * Scale, d)
    ELSE Scale - RoundHalfEven((d - n) * Scale, d)

---------------------------------------------------------------------------
\* Host oracles.  The host's answers (animation, ray casting, projection)
\* are fixed by the scene geometry; Init draws the geometry from Scenes.

\* One answer of the host for a (frame, camera, GCP) triple:
\*   hit      what scene.ray_cast reports: "self" (the GCP), "other", "none"
\*   x, y, z  world_to_camera_view(scene, camera, gcp_pos); z is the depth
\*   same     camera_pos = gcp_pos (the ray direction has length zero; the
\*            depth of the camera's own position is 0)
V(hit, x, y, z, same) == [hit |-> hit, x |-> x, y |-> y, z |-> z, same |-> same]
Tiny == Q(0, 1, 4 * Scale)      \* a quarter of the last formatted digit
ViewCases == <<
    V("self",  Q(0, 1, 2), Q(0, 1, 4), IntQ(5),   FALSE),   \*  1 in view
    V("self",  Q(0, 3, 4), Q(0, 1, 2), IntQ(3),   FALSE),   \*  2 in view
    V("other", Q(0, 1, 2), Q(0, 1, 2), IntQ(5),   FALSE),   \*  3 occluded, in frustum
    V("none",  Q(0, 1, 2), Q(0, 1, 2), IntQ(5),   FALSE),   \*  4 ray hits nothing
    V("self",  IntQ(0),    Q(0, 1, 2), IntQ(5),   FALSE),   \*  5 x = 0
    V("self",  IntQ(1),    Q(0, 1, 2), IntQ(5),   FALSE),   \*  6 x = 1
    V("self",  Q(0, 1, 2), IntQ(0),    IntQ(5),   FALSE),   \*  7 y = 0
    V("self",  Q(0, 1, 2), IntQ(1),    IntQ(5),   FALSE),   \*  8 y = 1
    V("self",  Q(0, 1, 2), Q(0, 1, 2), IntQ(1),   FALSE),   \*  9 z = 1
    V("self",  Q(0, 1, 2), Q(0, 1, 2), IntQ(100), FALSE),   \* 10 z = 100
    V("self",  Q(0, 1, 4), Q(0, 3, 4), IntQ(2),   FALSE),   \* 11 z = 2
    V("self",  Q(0, 1, 4), Q(0, 1, 4), IntQ(50),  FALSE),   \* 12 z = 50
    V("self",  Q(0, 1, 2), Q(0, 1, 2), IntQ(0),   TRUE),    \* 13 coincident, ray reports the GCP
    V("none",  Q(0, 1, 2), Q(0, 1, 2), IntQ(0),   TRUE),    \* 14 coincident, ray hits nothing
    V("self",  Tiny,       Tiny,       IntQ(5),   FALSE),   \* 15 just inside the corner
    V("self",  Q(-1, 3, 4), Q(1, 1, 4), IntQ(5),  FALSE),   \* 16 outside left / above
    V("self",  Q(0, 1, 2), Q(0, 1, 2), IntQ(-3),  FALSE),   \* 17 behind the camera
    V("other", Q(0, 1, 2), Q(0, 1, 2), IntQ(0),   TRUE)     \* 18 coincident, ray reports another object
>>

\* The scenes: which answers the host gives, triple by triple.
SceneTable == <<
    <<1, 2, 11, 12, 15, 2, 1, 11>>,       \* everything near the view axis
    <<3, 4, 16, 17, 14, 3, 9, 10>>,       \* nothing visible
    <<5, 6, 1, 7, 10, 9, 8, 2>>,          \* GCPs on the frustum's faces
    <<13, 1, 14, 3, 15, 11, 18, 12>>      \* degenerate and mixed
>>
Scenes == 1..Len(SceneTable)

\* The host's answer for GCP gcp seen from camera cam at frame f.
View(g, f, cam, gcp) ==
    LET row == SceneTable[g]
        t   == 4 * (f - 1) + 2 * (cam[2] - 1) + (gcp[2] - 1)
    IN  ViewCases[row[(t % Len(row)) + 1]]

\* camera.data.clip_start / clip_end (positive: the host keeps clip_start > 0)
clip_start(cam) == IF cam = Cam(1) THEN IntQ(1) ELSE IntQ(2)
clip_end(cam)   == IF cam = Cam(1) THEN IntQ(100) ELSE IntQ(50)

\* degrees(gcp.rotation_euler[k]) for k = 0, 1, 2, evaluated at frame f
RotCases == <<
    <<IntQ(0),    IntQ(0),   IntQ(0)>>,
    <<IntQ(10),   IntQ(20),  IntQ(90)>>,
    <<IntQ(359),  IntQ(360), IntQ(370)>>,
    <<IntQ(-90),  IntQ(400), IntQ(-45)>>,
    <<Q(-1, 4 * Scale - 1, 4 * Scale), Q(45, 1, 2), Q(0, 1, 4 * Scale)>>,
    <<Q(-1, 4 * Scale - 3, 4 * Scale), IntQ(-360), Q(180, 3, 4 * Scale)>>
>>
rotation_degrees(g, gcp, f) == RotCases[((g + gcp[2] + f) % Len(RotCases)) + 1]

\* gcp.location (integral coordinates) and scene.unit_settings.scale_length
location(g, gcp, f) == <<gcp[2], -(g + f), 10 * gcp[2] + g>>
unit_scale(g) == IF g % 2 = 0 THEN 2 ELSE 1
---------------------------------------------------------------------------
\* prefs/properties.py

\* SFMFLOW_AddonProperties.get_render_cameras
get_render_cameras(rc) == SelectSeq(rc, LAMBDA c : c # None)

\* SFMFLOW_AddonProperties.has_render_camera
has_render_camera(rc) == \E k \in 1..Len(rc) : rc[k] # None

\* Changed model: the poll does not look for the camera in the list.
_camera_poll_NoListCheck(obj, context) ==
    IF ObjType(obj) = "CAMERA"
    THEN IF ~context THEN TRUE
         ELSE IF obj \notin scene_objects THEN FALSE
         ELSE TRUE
    ELSE FALSE

\* SFMFLOW_RenderCameraProperty._camera_poll(obj); context says whether
\* bpy.context is available
_camera_poll(obj, context) ==
    IF ObjType(obj) = "CAMERA"
    THEN IF ~context THEN TRUE
         ELSE IF obj \notin scene_objects THEN FALSE
         ELSE IF \E k \in 1..Len(render_cameras) : render_cameras[k] = obj THEN FALSE
         ELSE TRUE
    ELSE FALSE

---------------------------------------------------------------------------
\* operators/export_gcps.py

GCPS_CSV_FIELDNAMES ==
    <<"gcp_name", "x/east", "y/north", "z/altitude", "yaw", "pitch", "roll">>
GCPS_IMAGES_CSV_FIELDNAMES == <<"image_name", "gcp_name", "image_x", "image_y">>

\* NUM_FORMAT.format(q): q rounded to DIGITS decimals, in units of 10^-DIGITS
NUM_FORMAT(q) == q.i * Scale + RoundFrac(q.n, q.d)

\* A text file: absent, or a list of rows.
NoFile == [exists |-> FALSE, rows |-> <<>>]
\* Changed model: the file is opened for appending.
OpenForAppending(file) == [exists |-> TRUE, rows |-> file.rows]

\* open(path, 'w'): the file is created or truncated
OpenForWriting(file) == [exists |-> TRUE, rows |-> <<>>]
\* csv_writer.writerow(row)
WriteRow(file, row) == [file EXCEPT !.rows = Append(@, row)]

\* Changed model: the yaw is the raw z-rotation mod 360.
Yaw_Raw(rot) == QMod360(rot[3])

\* The three exported angles of one GCP (lines 116-118).
Yaw(rot)   == QMod360(QSubFromInt(360, rot[3]))
Pitch(rot) == QMod360(rot[1])
Roll(rot)  == QMod360(rot[2])

\* One data row of gcp_list.txt (lines 110-119), poses read at frame f.
GcpRow(g, gcp, f) ==
    LET loc == location(g, gcp, f)
        rot == rotation_degrees(g, gcp, f)
    IN  <<gcp,
          NUM_FORMAT(IntQ(loc[1] * unit_scale(g))),
          NUM_FORMAT(IntQ(loc[2] * unit_scale(g))),
          NUM_FORMAT(IntQ(loc[3] * unit_scale(g))),
          NUM_FORMAT(Yaw(rot)),
          NUM_FORMAT(Pitch(rot)),
          NUM_FORMAT(Roll(rot))>>

\* gcp_list.txt as lines 106-119 write it.
RECURSIVE WriteGcpRows(_, _, _, _, _)
WriteGcpRows(file, g, objs, k, f) ==
    IF k > Len(objs) THEN file
    ELSE WriteGcpRows(WriteRow(file, GcpRow(g, objs[k], f)), g, objs, k + 1, f)

WriteGcpList(file, g, objs, f) ==
    WriteGcpRows(WriteRow(OpenForWriting(file), GCPS_CSV_FIELDNAMES), g, objs, 1, f)

\* render_size (lines 124-125): int() truncates
RenderSize(res) == <<(res.x * res.pct) \div 100, (res.y * res.pct) \div 100>>

\* get_render_image_filename(camera, scene, frame): utils/path.py is not among
\* the sources; a name determined by the camera, the frame and the file format.
get_render_image_filename(cam, fmt, f) == <<cam, f, fmt>>

\* line 157: the ray cast reports a hit and the hit object is the GCP
NotOccluded(v) == v.hit = "self"

\* Changed model: the right edge of the image is taken as inside.
InFrustum_Inclusive(v, cam) ==
    /\ QLess(IntQ(0), v.x) /\ ~QLess(IntQ(1), v.x)
    /\ QLess(IntQ(0), v.y) /\ QLess(v.y, IntQ(1))
    /\ QLess(clip_start(cam), v.z) /\ QLess(v.z, clip_end(cam))

\* Changed model: the near clip plane is not tested.
InFrustum_NoNearClip(v, cam) ==
    /\ QLess(IntQ(0), v.x) /\ QLess(v.x, IntQ(1))
    /\ QLess(IntQ(0), v.y) /\ QLess(v.y, IntQ(1))
    /\ QLess(v.z, clip_end(cam))

\* line 159: the GCP is in the view frustum
InFrustum(v, cam) ==
    /\ QLess(IntQ(0), v.x) /\ QLess(v.x, IntQ(1))
    /\ QLess(IntQ(0), v.y) /\ QLess(v.y, IntQ(1))
    /\ QLess(clip_start(cam), v.z) /\ QLess(v.z, clip_end(cam))

\* Changed model: the vertical axis is not flipped.
GcpPx_NoFlip(v, size) == <<QMulInt(v.x, size[1]), QMulInt(v.y, size[2])>>

\* line 161: gcp_px
GcpPx(v, size) == <<QMulInt(v.x, size[1]), QSubFromInt(size[2], QMulInt(v.y, size[2]))>>

\* lines 162-164: the row written for a visible GCP
ImageRow(name, gcp, px) == <<name, gcp, NUM_FORMAT(px[1]), NUM_FORMAT(px[2])>>
\* SFMFLOW_OT_export_gcps.poll: the host asks it before it starts the
\* operator from the interface.  invoke and execute are modelled as the
\* methods they are, callable in any idle state, so that their own checks act.
poll == /\ has_render_camera(render_cameras)
        /\ gcp_collection.exists
        /\ gcp_collection.objects # <<>>

---------------------------------------------------------------------------
\* The operator, step by step.  pc is the position inside execute:
\*   "idle"         no operator is running
\*   "frame_loop"   at the head of  for frame in range(frame_start, frame_end+1)
\*   "camera_loop"  at the head of  for camera in cameras
\*   "gcp_loop"     at the head of  for gcp in gcps
\*   "restore"      after the loops, before line 166

Snapshot == [frame_current |-> frame_current, camera |-> camera,
             dir_exists |-> dir_exists, gcp_list |-> gcp_list,
             gcp_images_list |-> gcp_images_list,
             file_format |-> file_format]

\* self.report(...) followed by return {'CANCELLED'}
Cancel(level, msg) ==
    /\ report' = <<level, msg>>
    /\ result' = "CANCELLED"
    /\ pc' = "idle"
    /\ UNCHANGED <<frame_current, camera, fileVars, loopVars, evaluated, row_src>>

\* execute, lines 82-133: the checks, gcp_list.txt, the backups and the
\* header of gcp_images_list.txt.  bpy.path.abspath leaves "" as it is and
\* os.makedirs("") raises FileNotFoundError.
ExecuteBody ==
    LET cams == get_render_cameras(render_cameras) IN
    IF cams = <<>> THEN Cancel("ERROR", "No render camera available!")
    ELSE IF ~gcp_collection.exists \/ gcp_collection.objects = <<>>
    THEN Cancel("ERROR", "No GCPs found in the current scene!")
    ELSE IF output_path = ""
    THEN /\ report' = <<>>
         /\ result' = "EXCEPTION"
         /\ pc' = "idle"
         /\ UNCHANGED <<frame_current, camera, fileVars, loopVars, evaluated, row_src>>
    ELSE /\ dir_exists' = TRUE
         /\ gcp_list' = WriteGcpList(gcp_list, geometry, gcp_collection.objects,
                                     frame_current)
         /\ gcp_images_list' = WriteRow(OpenForWriting(gcp_images_list),
                                        GCPS_IMAGES_CSV_FIELDNAMES)
         /\ cameras' = cams
         /\ gcps' = gcp_collection.objects
         /\ render_size' = RenderSize(resolution)
         /\ frame_backup' = frame_current
         /\ camera_backup' = camera
         /\ frame' = frame_start
         /\ ci' = 1
         /\ gi' = 1
         /\ image_filename' = <<>>
         /\ report' = <<>>
         /\ result' = "RUNNING"
         /\ pc' = "frame_loop"
         /\ evaluated' = <<>>
         /\ row_src' = <<>>
         /\ UNCHANGED <<frame_current, camera>>

\* Changed model: invoke does not look at bpy.data.is_dirty.
Invoke_IgnoresDirty ==
    /\ pc = "idle"
    /\ exports < MaxExports
    /\ exports' = exports + 1
    /\ via' = "invoke"
    /\ pre' = Snapshot
    /\ file_format' = render_file_format
    /\ IF is_saved
       THEN ExecuteBody
       ELSE Cancel("WARNING", "Save project before export")
    /\ UNCHANGED <<sceneVars, completed, polled_without_context>>

\* SFMFLOW_OT_export_gcps.invoke
Invoke ==
    /\ pc = "idle"
    /\ exports < MaxExports
    /\ exports' = exports + 1
    /\ via' = "invoke"
    /\ pre' = Snapshot
    /\ file_format' = render_file_format
    /\ IF is_saved
       THEN IF is_dirty
            THEN Cancel("WARNING",
                        "Unsaved changes found, check and UNDO or SAVE changes before export")
            ELSE ExecuteBody
       ELSE Cancel("WARNING", "Save project before export")
    /\ UNCHANGED <<sceneVars, completed, polled_without_context>>

\* SFMFLOW_OT_export_gcps.execute called directly
Execute ==
    /\ pc = "idle"
    /\ exports < MaxExports
    /\ exports' = exports + 1
    /\ via' = "execute"
    /\ pre' = Snapshot
    /\ ExecuteBody
    /\ UNCHANGED <<sceneVars, file_format, completed, polled_without_context>>

\* line 135-136: next frame, scene.frame_set(frame); or the loop is over
FrameLoop ==
    /\ pc = "frame_loop"
    /\ IF frame <= frame_end
       THEN /\ frame_current' = frame
            /\ ci' = 1
            /\ pc' = "camera_loop"
       ELSE /\ pc' = "restore"
            /\ UNCHANGED <<frame_current, ci>>
    /\ UNCHANGED <<sceneVars, file_format, camera, fileVars, frame, gi, cameras,
                   gcps, frame_backup, camera_backup, render_size, image_filename,
                   result, report, histVars>>

\* Changed model: the loop does not make the camera the active camera.
CameraLoop_KeepsActiveCamera ==
    /\ pc = "camera_loop"
    /\ IF ci <= Len(cameras)
       THEN /\ image_filename' = get_render_image_filename(cameras[ci], file_format, frame)
            /\ gi' = 1
            /\ pc' = "gcp_loop"
            /\ UNCHANGED frame
       ELSE /\ frame' = frame + 1
            /\ pc' = "frame_loop"
            /\ UNCHANGED <<image_filename, gi>>
    /\ UNCHANGED <<sceneVars, file_format, frame_current, camera, fileVars, ci,
                   cameras, gcps, frame_backup, camera_backup, render_size,
                   result, report, histVars>>

\* lines 142-149: next camera, scene.camera = camera, the image's file name
CameraLoop ==
    /\ pc = "camera_loop"
    /\ IF ci <= Len(cameras)
       THEN /\ camera' = cameras[ci]
            /\ image_filename' = get_render_image_filename(cameras[ci], file_format, frame)
            /\ gi' = 1
            /\ pc' = "gcp_loop"
            /\ UNCHANGED frame
       ELSE /\ frame' = frame + 1
            /\ pc' = "frame_loop"
            /\ UNCHANGED <<camera, image_filename, gi>>
    /\ UNCHANGED <<sceneVars, file_format, frame_current, fileVars, ci, cameras,
                   gcps, frame_backup, camera_backup, render_size,
                   result, report, histVars>>

\* lines 151-164: next GCP: ray cast, projection, frustum test, row
GcpLoop ==
    /\ pc = "gcp_loop"
    /\ IF gi <= Len(gcps)
       THEN LET cam == cameras[ci]
                gcp == gcps[gi]
                v   == View(geometry, frame_current, cam, gcp)
            IN  /\ evaluated' = Append(evaluated,
                        [frame |-> frame, ci |-> ci, gi |-> gi,
                         frame_current |-> frame_current, camera |-> camera])
                /\ IF NotOccluded(v) /\ InFrustum(v, cam)
                   THEN /\ gcp_images_list' =
                              WriteRow(gcp_images_list,
                                       ImageRow(image_filename, gcp, GcpPx(v, render_size)))
                        /\ row_src' = Append(row_src, <<frame, ci, gi>>)
                   ELSE UNCHANGED <<gcp_images_list, row_src>>
                /\ gi' = gi + 1
                /\ UNCHANGED <<ci, pc>>
       ELSE /\ ci' = ci + 1
            /\ pc' = "camera_loop"
            /\ UNCHANGED <<gi, gcp_images_list, evaluated, row_src>>
    /\ UNCHANGED <<sceneVars, file_format, frame_current, camera, dir_exists,
                   gcp_list, frame, cameras, gcps, frame_backup, camera_backup,
                   render_size, image_filename, result, report,
                   via, pre, exports, completed, polled_without_context>>

\* Changed model: the active camera is not restored.
Restore_KeepsCamera ==
    /\ pc = "restore"
    /\ frame_current' = frame_backup
    /\ result' = "FINISHED"
    /\ pc' = "idle"
    /\ completed' = Append(completed,
                            [key |-> [file_format |-> file_format,
                                      frame_current |-> frame_backup],
                             gcp_list |-> gcp_list,
                             gcp_images_list |-> gcp_images_list])
    /\ UNCHANGED <<sceneVars, file_format, camera, fileVars, loopVars, report,
                   via, pre, evaluated, row_src, exports, polled_without_context>>

\* lines 166-170: restore the frame and the camera, return {'FINISHED'}.
\* completed records, per finished export, the files it left and the scene
\* state they were made from (the rest of the scene never changes here).
Restore ==
    /\ pc = "restore"
    /\ frame_current' = frame_backup
    /\ camera' = camera_backup
    /\ result' = "FINISHED"
    /\ pc' = "idle"
    /\ completed' = Append(completed,
                            [key |-> [file_format |-> file_format,
                                      frame_current |-> frame_backup],
                             gcp_list |-> gcp_list,
                             gcp_images_list |-> gcp_images_list])
    /\ UNCHANGED <<sceneVars, file_format, fileVars, loopVars, report,
                   via, pre, evaluated, row_src, exports, polled_without_context>>

\* A call inside the loops raises (scene.frame_set, get_render_image_filename,
\* scene.ray_cast, world_to_camera_view, csv_writer.writerow).  execute has no
\* try/finally: the with-block closes the file and the exception leaves
\* execute; lines 166-167 are not reached.
Raise ==
    /\ \/ pc = "frame_loop" /\ frame <= frame_end
       \/ pc = "camera_loop" /\ ci <= Len(cameras)
       \/ pc = "gcp_loop" /\ gi <= Len(gcps)
    /\ result' = "EXCEPTION"
    /\ pc' = "idle"
    /\ UNCHANGED <<sceneVars, file_format, frame_current, camera, fileVars,
                   loopVars, report, histVars>>

---------------------------------------------------------------------------
\* Initial states of the export specification: a scene, its settings and
\* what an earlier session left behind.

CamLists == {<<>>, <<None>>, <<Cam(1)>>, <<Cam(2), None, Cam(1)>>, <<Cam(1), Cam(1)>>}

GcpObjects(n) == [k \in 1..n |-> Gcp(k)]
GcpCollections ==
    {[exists |-> FALSE, objects |-> <<>>]} \cup
    {[exists |-> TRUE, objects |-> GcpObjects(n)] : n \in 0..MaxGcps}

Resolutions == {[x |-> 1920, y |-> 1080, pct |-> 100],
                [x |-> 1000, y |-> 1000, pct |-> 50],
                [x |-> 4,    y |-> 4,    pct |-> 25],
                [x |-> 4,    y |-> 4,    pct |-> 1]}

StaleGcpList == [exists |-> TRUE,
                 rows |-> <<GCPS_CSV_FIELDNAMES, <<Gcp(9), 0, 0, 0, 0, 0, 0>>>>]
StaleImagesList == [exists |-> TRUE,
                    rows |-> <<GCPS_IMAGES_CSV_FIELDNAMES,
                               <<<<Cam(9), 1, "PNG">>, Gcp(9), 0, 0>>>>]

\* what an earlier session left: nothing, or old files and a moved scene
InitSession(used) ==
    IF used
    THEN /\ dir_exists = TRUE
         /\ gcp_list = StaleGcpList
         /\ gcp_images_list = StaleImagesList
         /\ frame_current = MaxFrame + 1
         /\ camera = Cam(2)
         /\ file_format = "JPEG"
    ELSE /\ dir_exists = FALSE
         /\ gcp_list = NoFile
         /\ gcp_images_list = NoFile
         /\ frame_current = 1
         /\ camera = None
         /\ file_format = "PNG"

InitOperator ==
    /\ pc = "idle"
    /\ frame = 0 /\ ci = 0 /\ gi = 0
    /\ cameras = <<>> /\ gcps = <<>>
    /\ frame_backup = 0 /\ camera_backup = None
    /\ render_size = <<0, 0>> /\ image_filename = <<>>
    /\ result = "NONE" /\ report = <<>>
    /\ via = "none" /\ evaluated = <<>> /\ row_src = <<>>
    /\ exports = 0
    /\ pre = [frame_current |-> 0, camera |-> None, dir_exists |-> FALSE,
              gcp_list |-> NoFile, gcp_images_list |-> NoFile, file_format |-> ""]
    /\ completed = <<>>
    /\ polled_without_context = FALSE

\* the save the properties look at, before the user has asked for one
NoChain == [output_path |-> "?", render_filepath |-> "?", nested |-> -1]

\* class Callbacks as it is defined (lines 23-24), no handler running
InitCallbacksIdle ==
    /\ _is_cam_pose_updating = FALSE
    /\ _last_active_camera = None
    /\ cb_pc = "idle" /\ enum_i = 0
    /\ save_stack = <<>>
    /\ cb_pre = [render_cameras |-> <<>>, render_cameras_idx |-> -1]
    /\ cb_runs = 0 /\ cb_skipped = 0
    /\ user_saves = 0 /\ chain = NoChain

InitScene ==
    /\ render_cameras \in CamLists
    /\ render_cameras_idx = -1
    /\ gcp_collection \in GcpCollections
    /\ scene_objects = SceneCams \cup {Mesh}
                       \cup {gcp_collection.objects[k] : k \in 1..Len(gcp_collection.objects)}
    /\ render_file_format = "PNG"

\* the project is saved and clean: every scene and setting
InitSaved ==
    /\ is_saved = TRUE /\ is_dirty = FALSE
    /\ output_path = "//project__out/"
    /\ geometry \in Scenes
    /\ frame_start \in 1..MaxFrame
    /\ frame_end \in 1..MaxFrame
    /\ resolution \in Resolutions

\* the project was never saved, or has unsaved changes
InitUnsaved ==
    /\ \/ is_saved = FALSE /\ is_dirty = TRUE /\ output_path \in {"", "/data/out/"}
       \/ is_saved = TRUE /\ is_dirty = TRUE /\ output_path = "//project__out/"
    /\ geometry = 1
    /\ frame_start = 1
    /\ frame_end = MaxFrame
    /\ resolution = [x |-> 1920, y |-> 1080, pct |-> 100]

Init ==
    /\ InitScene
    /\ InitSaved \/ InitUnsaved
    /\ \E used \in BOOLEAN : InitSession(used)
    /\ InitOperator
    /\ InitCallbacksIdle
    /\ filepath = (IF is_saved THEN "/data/project.blend" ELSE "")
    /\ render_filepath = "/tmp/"

Next ==
    \/ Invoke
    \/ Execute
    \/ FrameLoop
    \/ CameraLoop
    \/ GcpLoop
    \/ Restore
    \/ Raise

Spec == Init /\ [][Next]_vars
---------------------------------------------------------------------------
\* Properties of the export operator.

\* The render cameras and GCPs of the scene, as the properties read them.
SceneCameras == SelectSeq(render_cameras, LAMBDA c : c # None)
SceneGcps    == gcp_collection.objects
Triples      == (frame_start..frame_end) \X (1..Len(SceneCameras)) \X (1..Len(SceneGcps))
Finished     == pc = "idle" /\ result = "FINISHED"

\* a < b for mixed numbers, by cross-multiplication
Lt(a, b) == (a.i * a.d + a.n) * b.d < (b.i * b.d + b.n) * a.d

\* The visibility condition as the claims state it.
SeenBy(v, cam) ==
    /\ v.hit = "self"
    /\ Lt(IntQ(0), v.x) /\ Lt(v.x, IntQ(1))
    /\ Lt(IntQ(0), v.y) /\ Lt(v.y, IntQ(1))
    /\ Lt(clip_start(cam), v.z) /\ Lt(v.z, clip_end(cam))

TripleSeen(t) == SeenBy(View(geometry, t[1], SceneCameras[t[2]], SceneGcps[t[3]]),
                        SceneCameras[t[2]])

\* C1: after an export that ran to completion the current frame and the
\* active camera are what they were before it, whatever the frame range and
\* the numbers of cameras and GCPs; with an empty frame range or no visible
\* GCP, gcp_images_list.txt holds exactly the header row.
C1_RestoredAfterExport ==
    Finished =>
        /\ frame_current = pre.frame_current
        /\ camera = pre.camera
        /\ (\A t \in Triples : ~TripleSeen(t)) =>
               gcp_images_list = [exists |-> TRUE,
                                  rows |-> <<GCPS_IMAGES_CSV_FIELDNAMES>>]

\* C1 witness: a finished export that moved the frame and the camera, found
\* no GCP visible and left the header-only file over an older one.
C1_Witness ==
    /\ Finished
    /\ Len(evaluated) > 0
    /\ row_src = <<>>
    /\ pre.gcp_images_list = StaleImagesList
    /\ pre.frame_current # frame_end
    /\ pre.camera # cameras[Len(cameras)]
    /\ frame_current = pre.frame_current
    /\ camera = pre.camera

\* C2 (as claimed): the frame and the camera are restored on every exit path,
\* also when the iteration is left by an exception.
C2_RestoredOnEveryExit ==
    (pc = "idle" /\ result \in {"FINISHED", "EXCEPTION"}) =>
        /\ frame_current = pre.frame_current
        /\ camera = pre.camera

\* A precondition of the export fails.
NoRenderCamera == \A k \in 1..Len(render_cameras) : render_cameras[k] = None
NoGcp          == ~gcp_collection.exists \/ Len(gcp_collection.objects) = 0
NotSavedClean  == ~is_saved \/ is_dirty
FilesUntouched == /\ dir_exists = pre.dir_exists
                  /\ gcp_list = pre.gcp_list
                  /\ gcp_images_list = pre.gcp_images_list
Refused        == /\ pc = "idle"
                  /\ result = "CANCELLED"
                  /\ report # <<>>
                  /\ FilesUntouched

\* C3 (as claimed): started through invoke or execute with any precondition
\* failing, the operator reports, returns CANCELLED and touches no file.
C3_AnyStartRefused ==
    (via # "none" /\ (NoRenderCamera \/ NoGcp \/ NotSavedClean)) => Refused

\* C3 (amended): the same, where the saved-and-clean precondition is checked
\* only on a start through invoke.
C3_PreconditionRefused ==
    (via # "none" /\ (NoRenderCamera \/ NoGcp \/ (via = "invoke" /\ NotSavedClean)))
        => Refused

\* C3 witness: invoke on a project with unsaved changes was refused and the
\* files of an earlier export are still there.
C3_Witness ==
    /\ via = "invoke"
    /\ is_saved /\ is_dirty
    /\ ~NoRenderCamera /\ ~NoGcp
    /\ Refused
    /\ pre.gcp_list = StaleGcpList

\* The rows of gcp_images_list.txt below the header, and where each came from.
DataRows == Tail(gcp_images_list.rows)
RowOf(t) == {k \in 1..Len(row_src) : row_src[k] = t}
\* row k is a row for the image of t's camera and frame and for t's GCP
RowNames(k, t) ==
    /\ k <= Len(DataRows)
    /\ DataRows[k][1] = get_render_image_filename(SceneCameras[t[2]], file_format, t[1])
    /\ DataRows[k][2] = SceneGcps[t[3]]

\* C4: for every frame of the range, render camera and GCP, the file has a
\* row for that image and GCP if and only if the ray cast hits that GCP and
\* 0 < x < 1, 0 < y < 1, clip_start < z < clip_end hold strictly; while the
\* export runs, every row written so far belongs to such a triple.
C4_RowIffVisible ==
    /\ result \in {"RUNNING", "FINISHED"} =>
           \A k \in 1..Len(row_src) :
               /\ row_src[k] \in Triples
               /\ TripleSeen(row_src[k])
               /\ RowNames(k, row_src[k])
    /\ Finished =>
           /\ Len(DataRows) = Len(row_src)
           /\ \A t \in Triples : (RowOf(t) # {}) <=> TripleSeen(t)

\* C4 witness: a finished export with a row, with a GCP inside the frustum
\* whose ray hit another object, and with a GCP on the face x = 0 or on the
\* far clip plane, neither of which got a row.
C4_Witness ==
    /\ Finished
    /\ row_src # <<>>
    /\ \E t \in Triples :
           LET v == View(geometry, t[1], SceneCameras[t[2]], SceneGcps[t[3]])
           IN  v.hit = "other" /\ v.x = Q(0, 1, 2) /\ v.z = IntQ(5) /\ RowOf(t) = {}
    /\ \E t \in Triples :
           LET v == View(geometry, t[1], SceneCameras[t[2]], SceneGcps[t[3]])
           IN  /\ v.hit = "self" /\ RowOf(t) = {}
               /\ v.z = clip_end(SceneCameras[t[2]]) \/ v.z = clip_start(SceneCameras[t[2]])

\* lexicographic order on (frame, camera position, GCP position)
LexLess(a, b) ==
    \/ a[1] < b[1]
    \/ a[1] = b[1] /\ a[2] < b[2]
    \/ a[1] = b[1] /\ a[2] = b[2] /\ a[3] < b[3]
Increasing(seq) == \A j, k \in 1..Len(seq) : j < k => LexLess(seq[j], seq[k])
EvalTriple(e) == <<e.frame, e.ci, e.gi>>
NumTriples == (IF frame_end < frame_start THEN 0 ELSE frame_end - frame_start + 1)
                  * Len(SceneCameras) * Len(SceneGcps)

\* C5: the triples are evaluated, and the rows written, in (frame, camera
\* position, GCP position) order; no triple is evaluated twice and each gives
\* at most one row; a finished export has evaluated every triple, so there
\* are at most frames x cameras x GCPs data rows; when a triple is evaluated
\* the current frame is its frame and the active camera is its camera.
C5_OrderedOnce ==
    result \in {"RUNNING", "FINISHED"} =>
        /\ Increasing([k \in 1..Len(evaluated) |-> EvalTriple(evaluated[k])])
        /\ Increasing(row_src)
        /\ \A k \in 1..Len(row_src) :
               \E j \in 1..Len(evaluated) : EvalTriple(evaluated[j]) = row_src[k]
        /\ \A k \in 1..Len(evaluated) :
               /\ EvalTriple(evaluated[k]) \in Triples
               /\ evaluated[k].frame_current = evaluated[k].frame
               /\ evaluated[k].camera = SceneCameras[evaluated[k].ci]
        /\ Len(DataRows) <= NumTriples
        /\ Finished => Len(evaluated) = NumTriples

\* C5 witness: a finished export over two frames, two cameras and two GCPs
\* that wrote rows for both frames.
C5_Witness ==
    /\ Finished
    /\ Len(evaluated) >= 8
    /\ \E j, k \in 1..Len(row_src) : row_src[j][1] < row_src[k][1]
    /\ \E j, k \in 1..Len(row_src) : row_src[j][2] < row_src[k][2]

\* the header occurs once, as the first row
OneHeader(file, header) ==
    /\ file.exists
    /\ Len(file.rows) >= 1
    /\ \A k \in 1..Len(file.rows) : (file.rows[k] = header) <=> (k = 1)

\* C6: whatever the files held before, a finished export leaves in both
\* files only what this invocation wrote: one header row, one row per GCP in
\* gcp_list.txt and the rows of this run in gcp_images_list.txt; and two
\* finished exports made from the same scene state left identical files.
C6_OverwrittenAndRepeatable ==
    /\ Finished =>
           /\ OneHeader(gcp_list, GCPS_CSV_FIELDNAMES)
           /\ Len(gcp_list.rows) = 1 + Len(SceneGcps)
           /\ \A k \in 1..Len(SceneGcps) : gcp_list.rows[k + 1][1] = SceneGcps[k]
           /\ OneHeader(gcp_images_list, GCPS_IMAGES_CSV_FIELDNAMES)
           /\ Len(gcp_images_list.rows) = 1 + Len(row_src)
           /\ completed[Len(completed)].gcp_list = gcp_list
           /\ completed[Len(completed)].gcp_images_list = gcp_images_list
    /\ \A j, k \in 1..Len(completed) :
           completed[j].key = completed[k].key =>
               /\ completed[j].gcp_list = completed[k].gcp_list
               /\ completed[j].gcp_images_list = completed[k].gcp_images_list

\* C6 witness: two finished exports from the same scene state, over files
\* an earlier session had left, each with data rows.
C6_Witness ==
    /\ Finished
    /\ Len(completed) = 2
    /\ completed[1].key = completed[2].key
    /\ Len(gcp_images_list.rows) > 2
    /\ Len(gcp_list.rows) > 2
    /\ completed[1].gcp_images_list = gcp_images_list

\* e (an integer number of units 10^-DIGITS, 0..Scale) is n/d rounded to
\* DIGITS decimals: a nearest integer to n/d * Scale, taken on the smaller
\* side of n and d-n.
Rounded(e, n, d) ==
    LET small == 2 * n <= d
        e2 == IF small THEN e ELSE Scale - e
        n2 == IF small THEN n ELSE d - n
        q  == (n2 * Scale) \div d
        r  == (n2 * Scale) % d
    IN  \/ 2 * r <= d /\ e2 = q
        \/ 2 * r >= d /\ e2 = q + 1
\* w is what the file shows for the exact value q
WrittenAs(w, q) == Rounded(w - q.i * Scale, q.n, q.d)

\* (360 - r) mod 360 and r mod 360 for a raw angle r, in degrees
ClaimYaw(r)  == IF r.n = 0 THEN Q((360 - r.i) % 360, 0, 1)
                ELSE Q((359 - r.i) % 360, r.d - r.n, r.d)
ClaimNorm(r) == Q(r.i % 360, r.n, r.d)

\* gcp_list.txt holds the rows of the running or finished export
GcpListWritten == result \in {"RUNNING", "FINISHED"}
RawRotation(k) == rotation_degrees(geometry, SceneGcps[k], pre.frame_current)
AngleFormulas(k) ==
    LET row == gcp_list.rows[k + 1]
        rot == RawRotation(k)
    IN  /\ WrittenAs(row[5], ClaimYaw(rot[3]))
        /\ WrittenAs(row[6], ClaimNorm(rot[1]))
        /\ WrittenAs(row[7], ClaimNorm(rot[2]))
        /\ rot[3] = IntQ(0)   => row[5] = 0
        /\ rot[3] = IntQ(90)  => row[5] = 270 * Scale
        /\ rot[3] = IntQ(370) => row[5] = 350 * Scale

\* C7 (as claimed): yaw is (360 - raw z) mod 360, pitch and roll are the
\* raw angles mod 360, and all three exported angles lie in [0, 360).
C7_AnglesBelow360 ==
    GcpListWritten =>
        \A k \in 1..Len(SceneGcps) :
            /\ AngleFormulas(k)
            /\ \A c \in 5..7 : 0 <= gcp_list.rows[k + 1][c]
                               /\ gcp_list.rows[k + 1][c] < 360 * Scale

\* C7 (amended): the same formulas; the exported angles, written with six
\* decimals, lie in [0, 360], and 360.000000 is written only for a
\* normalised angle that is not a whole number of degrees.
C7_AnglesNormalised ==
    GcpListWritten =>
        \A k \in 1..Len(SceneGcps) :
            /\ AngleFormulas(k)
            /\ \A c \in 5..7 : 0 <= gcp_list.rows[k + 1][c]
                               /\ gcp_list.rows[k + 1][c] <= 360 * Scale
            /\ \A c \in 1..3 :
                   RawRotation(k)[c].n = 0 => gcp_list.rows[k + 1][IF c = 3 THEN 5 ELSE c + 5] < 360 * Scale

\* C7 witness: a written gcp_list.txt with a raw z-rotation of 370 exported
\* as yaw 350 and a GCP with negative and above-360 raw angles, all normalised.
C7_Witness ==
    /\ Finished
    /\ \E j, k \in 1..Len(SceneGcps) :
           /\ RawRotation(j)[3] = IntQ(370) /\ gcp_list.rows[j + 1][5] = 350 * Scale
           /\ RawRotation(j)[2] = IntQ(360) /\ gcp_list.rows[j + 1][7] = 0
           /\ RawRotation(k)[1] = IntQ(-90) /\ gcp_list.rows[k + 1][6] = 270 * Scale
           /\ RawRotation(k)[2] = IntQ(400) /\ gcp_list.rows[k + 1][7] = 40 * Scale
           /\ RawRotation(k)[3] = IntQ(-45) /\ gcp_list.rows[k + 1][5] = 45 * Scale

\* scaled render size and exact pixel position, as the claim gives them
ClaimSize == <<(resolution.x * resolution.pct) \div 100,
               (resolution.y * resolution.pct) \div 100>>
ClaimTimes(q, k) == LET a == q.i * q.d + q.n
                    IN  Q((a * k) \div q.d, (a * k) % q.d, q.d)
ClaimFlip(h, q) == IF q.n = 0 THEN Q(h - q.i, 0, 1) ELSE Q(h - q.i - 1, q.d - q.n, q.d)
PixelFormulas(k) ==
    LET t == row_src[k]
        v == View(geometry, t[1], SceneCameras[t[2]], SceneGcps[t[3]])
        row == DataRows[k]
    IN  /\ WrittenAs(row[3], ClaimTimes(v.x, ClaimSize[1]))
        /\ WrittenAs(row[4], ClaimFlip(ClaimSize[2], ClaimTimes(v.y, ClaimSize[2])))
        /\ (ClaimSize = <<1920, 1080>> /\ v.x = Q(0, 1, 2) /\ v.y = Q(0, 1, 4))
               => (row[3] = 960 * Scale /\ row[4] = 810 * Scale)
ImagesListWritten == result \in {"RUNNING", "FINISHED"} /\ Len(DataRows) = Len(row_src)

\* C8 (as claimed): the row of a visible GCP holds (x * W, H - y * H) for the
\* scaled, truncated render size W x H, hence 0 < pixel_x < W and
\* 0 < pixel_y < H in every row.
C8_PixelStrictlyInside ==
    ImagesListWritten =>
        \A k \in 1..Len(row_src) :
            /\ PixelFormulas(k)
            /\ 0 < DataRows[k][3] /\ DataRows[k][3] < ClaimSize[1] * Scale
            /\ 0 < DataRows[k][4] /\ DataRows[k][4] < ClaimSize[2] * Scale

\* C8 (amended): the same formulas; the written coordinates, rounded to six
\* decimals, satisfy 0 <= pixel_x <= W and 0 <= pixel_y <= H.
C8_PixelInside ==
    ImagesListWritten =>
        \A k \in 1..Len(row_src) :
            /\ PixelFormulas(k)
            /\ 0 <= DataRows[k][3] /\ DataRows[k][3] <= ClaimSize[1] * Scale
            /\ 0 <= DataRows[k][4] /\ DataRows[k][4] <= ClaimSize[2] * Scale

\* C8 witness: at 1920 x 1080 a GCP at ndc (0.5, 0.25) was written at
\* (960.000000, 810.000000).
C8_Witness ==
    /\ Finished
    /\ ClaimSize = <<1920, 1080>>
    /\ \E k \in 1..Len(row_src) :
           LET t == row_src[k]
               v == View(geometry, t[1], SceneCameras[t[2]], SceneGcps[t[3]])
           IN  /\ v.x = Q(0, 1, 2) /\ v.y = Q(0, 1, 4)
               /\ DataRows[k][3] = 960 * Scale /\ DataRows[k][4] = 810 * Scale

\* the camera and the GCP of triple t are at the same world position
Coincident(t) == View(geometry, t[1], SceneCameras[t[2]], SceneGcps[t[3]]).same

\* C9: a triple whose camera and GCP coincide never gets a row, the export
\* goes on to the following triples, and a finished export has evaluated
\* every such triple together with all the others.
C9_CoincidentNotVisible ==
    result \in {"RUNNING", "FINISHED"} =>
        /\ \A k \in 1..Len(evaluated) :
               Coincident(EvalTriple(evaluated[k])) => RowOf(EvalTriple(evaluated[k])) = {}
        /\ Finished =>
               \A t \in Triples :
                   Coincident(t) =>
                       /\ \E k \in 1..Len(evaluated) : EvalTriple(evaluated[k]) = t
                       /\ RowOf(t) = {}
                       /\ Len(evaluated) = NumTriples

\* C9 witness: a finished export met a coincident triple whose ray cast
\* reported the GCP itself, wrote no row for it and wrote one for a later triple.
C9_Witness ==
    /\ Finished
    /\ \E t \in Triples :
           /\ Coincident(t)
           /\ View(geometry, t[1], SceneCameras[t[2]], SceneGcps[t[3]]).hit = "self"
           /\ RowOf(t) = {}
           /\ \E k \in 1..Len(row_src) : LexLess(t, row_src[k])

---------------------------------------------------------------------------
\* The render-camera list (prefs/properties.py) and its editing.

exportVars == <<file_format, frame_current, camera, fileVars, pc, loopVars,
                result, report, via, pre, evaluated, row_src, exports, completed>>
listFrame  == <<geometry, gcp_collection, frame_start, frame_end, resolution,
                render_file_format, is_saved, is_dirty, output_path, callbackVars>>

\* render_cameras.add(): a new entry, its camera pointer unset
AddRenderCamera ==
    /\ Len(render_cameras) < MaxEntries
    /\ render_cameras' = Append(render_cameras, None)
    /\ UNCHANGED <<scene_objects, render_cameras_idx, polled_without_context,
                   listFrame, exportVars>>

\* The camera pointer of entry k is set to obj; the pointer property accepts
\* only objects its poll accepts.
AssignCamera ==
    \E k \in 1..Len(render_cameras), obj \in AllObjects, context \in BOOLEAN :
        /\ _camera_poll(obj, context)
        /\ render_cameras' = [render_cameras EXCEPT ![k] = obj]
        /\ polled_without_context' = (polled_without_context \/ ~context)
        /\ UNCHANGED <<scene_objects, render_cameras_idx, listFrame, exportVars>>

\* The camera pointer of entry k is cleared.
ClearCamera ==
    \E k \in 1..Len(render_cameras) :
        /\ render_cameras[k] # None
        /\ render_cameras' = [render_cameras EXCEPT ![k] = None]
        /\ UNCHANGED <<scene_objects, render_cameras_idx, polled_without_context,
                       listFrame, exportVars>>

\* A camera object is deleted from the scene; entries keep their pointer.
DeleteCameraObject ==
    \E obj \in scene_objects :
        /\ ObjType(obj) = "CAMERA"
        /\ scene_objects' = scene_objects \ {obj}
        /\ UNCHANGED <<render_cameras, render_cameras_idx, polled_without_context,
                       listFrame, exportVars>>

InitCameras ==
    /\ render_cameras = <<>>
    /\ render_cameras_idx = -1
    /\ gcp_collection = [exists |-> TRUE, objects |-> GcpObjects(MaxGcps)]
    /\ scene_objects = SceneCams \cup {Mesh} \cup {Gcp(k) : k \in 1..MaxGcps}
    /\ render_file_format = "PNG"
    /\ is_saved = TRUE /\ is_dirty = FALSE
    /\ output_path = "//project__out/"
    /\ geometry = 1
    /\ frame_start = 1
    /\ frame_end = MaxFrame
    /\ resolution = [x |-> 1920, y |-> 1080, pct |-> 100]
    /\ InitSession(FALSE)
    /\ InitOperator
    /\ InitCallbacksIdle
    /\ filepath = "/data/project.blend"
    /\ render_filepath = "/tmp/"

NextCameras ==
    \/ AddRenderCamera
    \/ AssignCamera
    \/ ClearCamera
    \/ DeleteCameraObject

SpecCameras == InitCameras /\ [][NextCameras]_vars

\* no camera object is referenced by two entries
ReferencedOnce ==
    \A j, k \in 1..Len(render_cameras) :
        (j # k /\ render_cameras[j] # None) => render_cameras[j] # render_cameras[k]
\* what the poll lets through, given whether a context is available
PollRejects(context) ==
    \A obj \in AllObjects :
        _camera_poll(obj, context) =>
            /\ ObjType(obj) = "CAMERA"
            /\ obj \in scene_objects
            /\ \A k \in 1..Len(render_cameras) : render_cameras[k] # obj

\* C10 (as claimed): in every reachable state of the render-camera list,
\* after any sequence of add and assign operations, each camera object is
\* referenced by at most one entry.
C10_ReferencedOnceAlways == ReferencedOnce

\* C10 (amended): the same whenever the poll has a context: the poll with a
\* context rejects those objects, and as long as every accepted assignment
\* was polled with a context each camera is referenced by at most one entry.
C10_ReferencedOnceWithContext ==
    /\ PollRejects(TRUE)
    /\ ~polled_without_context =>
           /\ ReferencedOnce
           /\ \A k \in 1..Len(render_cameras) : render_cameras[k] # OtherCam

\* C10 witness: a full list with both cameras of the scene assigned, every
\* assignment polled with a context, where the poll now accepts no object.
C10_Witness ==
    /\ ~polled_without_context
    /\ Len(render_cameras) = MaxEntries
    /\ \E j, k \in 1..Len(render_cameras) :
           render_cameras[j] = Cam(1) /\ render_cameras[k] = Cam(2)
    /\ \A obj \in AllObjects : ~_camera_poll(obj, TRUE)

---------------------------------------------------------------------------
\* utils/callbacks.py: the handlers of class Callbacks.  The host runs its
\* handlers and operators on one thread: a handler starts when nothing else
\* runs, or from inside a call the running handler makes.

\* what no handler touches
cbFrame == <<geometry, gcp_collection, frame_start, frame_end, resolution,
             render_file_format, polled_without_context, exportVars>>
listVars    == <<scene_objects, render_cameras, render_cameras_idx>>
camPoseVars == <<_is_cam_pose_updating, _last_active_camera, cb_pc, enum_i,
                 cb_pre, cb_runs, cb_skipped>>
saveVars    == <<is_saved, is_dirty, output_path, filepath, render_filepath,
                 save_stack, user_saves, chain>>

\* sfm_flow.utils.camera.is_active_object_camera: the active object is a camera
is_active_object_camera(active_object) ==
    active_object # None /\ ObjType(active_object) = "CAMERA"

\* render_cameras.remove(k), k counted from 0: the entries behind it move up
remove(list, k) ==
    IF k + 1 \in 1..Len(list)
    THEN SubSeq(list, 1, k) \o SubSeq(list, k + 2, Len(list))
    ELSE list

\* cam_pose_update, lines 37-38: the guard is open; the flag is set and the
\* enumeration of the list starts
CamPoseUpdate_Enter ==
    /\ cb_pc = "idle" /\ save_stack = <<>>
    /\ ~_is_cam_pose_updating
    /\ cb_runs < MaxRuns
    /\ _is_cam_pose_updating' = TRUE
    /\ enum_i' = 0
    /\ cb_pc' = "loop"
    /\ cb_pre' = [render_cameras |-> render_cameras,
                  render_cameras_idx |-> render_cameras_idx]
    /\ UNCHANGED <<_last_active_camera, cb_runs, cb_skipped, listVars, saveVars,
                   cbFrame>>

\* cam_pose_update, lines 41-45: one turn of the loop.  The list is enumerated
\* in place while the body removes from it: item number enum_i is the entry
\* that stands at position enum_i of the list as it is now, and the
\* enumeration ends when that position is past the end of the list.
CamPoseUpdate_Loop ==
    /\ cb_pc = "loop"
    /\ IF enum_i < Len(render_cameras)
       THEN LET cam_obj == render_cameras[enum_i + 1] IN
            /\ IF cam_obj # None /\ cam_obj \notin scene_objects
               THEN /\ render_cameras' = remove(render_cameras, enum_i)
                    /\ render_cameras_idx' = -1
               ELSE UNCHANGED <<render_cameras, render_cameras_idx>>
            /\ enum_i' = enum_i + 1
            /\ UNCHANGED cb_pc
       ELSE /\ cb_pc' = "tail"
            /\ UNCHANGED <<render_cameras, render_cameras_idx, enum_i>>
    /\ UNCHANGED <<_is_cam_pose_updating, _last_active_camera, cb_pre, cb_runs,
                   cb_skipped, scene_objects, saveVars, cbFrame>>

\* cam_pose_update, lines 47-64: the motion path of the active camera, then
\* the flag is cleared and the handler returns
CamPoseUpdate_Tail ==
    /\ cb_pc = "tail"
    /\ \E is_show_camera_pose \in BOOLEAN, motion_path \in BOOLEAN,
          active_object \in scene_objects \cup {None} :
          LET last == IF /\ _last_active_camera # None
                         /\ _last_active_camera \notin scene_objects
                      THEN None ELSE _last_active_camera
          IN  _last_active_camera' =
                  IF is_show_camera_pose /\ is_active_object_camera(active_object)
                  THEN active_object
                  ELSE IF last # None /\ motion_path THEN None ELSE last
    /\ _is_cam_pose_updating' = FALSE
    /\ cb_pc' = "idle"
    /\ cb_runs' = cb_runs + 1
    /\ UNCHANGED <<enum_i, cb_pre, cb_skipped, listVars, saveVars, cbFrame>>

\* cam_pose_update, line 37: called while a run is under way (a change the
\* run made to the scene fires the event again), it returns at the guard
CamPoseUpdate_Guarded ==
    /\ _is_cam_pose_updating
    /\ cb_skipped < MaxSkipped
    /\ cb_skipped' = cb_skipped + 1
    /\ UNCHANGED <<_is_cam_pose_updating, _last_active_camera, cb_pc, enum_i,
                   cb_pre, cb_runs, listVars, saveVars, cbFrame>>

\* Files the project can be saved as.
Filepaths == {"/data/project.blend", "/data/my scene.blend"}

\* post_save, lines 79-80: bpy.path.clean_name(
\* bpy.path.display_name_from_filepath(bpy.path.basename(bpy.data.filepath)),
\* replace='-'): the file's name without folder and extension, every
\* character that is not a letter or a digit replaced by '-'
project_name(fp) ==
    CASE fp = "/data/project.blend"  -> "project"
      [] fp = "/data/my scene.blend" -> "my-scene"
      [] OTHER                       -> ""

\* Changed model: the default path is the empty string.
DefaultOutputPath_Empty(name) == ""

\* post_save, line 81: "//" + project_name + "__out/"
DefaultOutputPath(name) ==
    CASE name = "project"  -> "//project__out/"
      [] name = "my-scene" -> "//my-scene__out/"
      [] OTHER             -> "//__out/"

\* the post_save handler that runs innermost
Top(stack) == stack[Len(stack)]
Pop(stack) == SubSeq(stack, 1, Len(stack) - 1)

\* The user saves the main file; the host writes it and then runs the
\* save_post handlers.  A project that has no file yet is given one.
SaveMainfile ==
    /\ cb_pc = "idle" /\ save_stack = <<>>
    /\ user_saves < MaxSaves
    /\ \E fp \in Filepaths : filepath' = (IF filepath = "" THEN fp ELSE filepath)
    /\ is_saved' = TRUE /\ is_dirty' = FALSE
    /\ save_stack' = <<"entry">>
    /\ user_saves' = user_saves + 1
    /\ chain' = [output_path |-> output_path, render_filepath |-> render_filepath,
                 nested |-> 0]
    /\ UNCHANGED <<output_path, render_filepath, listVars, camPoseVars, cbFrame>>

\* post_save, lines 77-83.  With an empty output_path it sets both paths and
\* calls bpy.ops.wm.save_mainfile(), which writes the file and runs the
\* save_post handlers again, inside this call; otherwise it returns.
PostSave ==
    /\ save_stack # <<>> /\ Top(save_stack) = "entry"
    /\ IF output_path = ""
       THEN /\ Len(save_stack) < MaxDepth
            /\ output_path' = DefaultOutputPath(project_name(filepath))
            /\ render_filepath' = output_path'
            /\ is_dirty' = FALSE
            /\ save_stack' = Pop(save_stack) \o <<"save_mainfile", "entry">>
            /\ chain' = [chain EXCEPT !.nested = @ + 1]
       ELSE /\ save_stack' = Pop(save_stack)
            /\ UNCHANGED <<output_path, render_filepath, is_dirty, chain>>
    /\ UNCHANGED <<is_saved, filepath, user_saves, listVars, camPoseVars, cbFrame>>

\* post_save, line 83: bpy.ops.wm.save_mainfile() has returned, and so does
\* the handler that called it
PostSave_Return ==
    /\ save_stack # <<>> /\ Top(save_stack) = "save_mainfile"
    /\ save_stack' = Pop(save_stack)
    /\ UNCHANGED <<is_saved, is_dirty, output_path, filepath, render_filepath,
                   user_saves, chain, listVars, camPoseVars, cbFrame>>

\* The user edits scene.sfmflow.output_path in the add-on's panel.
SetOutputPath ==
    /\ cb_pc = "idle" /\ save_stack = <<>>
    /\ \E path \in {"", "/data/out/"} : path # output_path /\ output_path' = path
    /\ is_dirty' = TRUE
    /\ chain' = NoChain
    /\ UNCHANGED <<is_saved, filepath, render_filepath, save_stack, user_saves,
                   listVars, camPoseVars, cbFrame>>

\* Render-camera lists in which no camera is referenced twice.
CallbackCamLists ==
    {l \in UNION {[1..n -> SceneCams \cup {None}] : n \in 0..MaxEntries} :
        \A j, k \in 1..Len(l) : (j # k /\ l[j] # None) => l[j] # l[k]}

\* The scene and the project as far as no handler touches them.
InitCallbackFrame ==
    /\ gcp_collection = [exists |-> TRUE, objects |-> GcpObjects(MaxGcps)]
    /\ render_file_format = "PNG"
    /\ geometry = 1
    /\ frame_start = 1
    /\ frame_end = MaxFrame
    /\ resolution = [x |-> 1920, y |-> 1080, pct |-> 100]
    /\ InitSession(FALSE)
    /\ InitOperator
    /\ InitCallbacksIdle

\* cam_pose_update: any such list, any selection, any of the scene's cameras
\* deleted from the scene since the handler ran last.
InitCamPose ==
    /\ render_cameras \in CallbackCamLists
    /\ render_cameras_idx \in (-1)..(Len(render_cameras) - 1)
    /\ \E deleted \in SUBSET SceneCams :
           scene_objects = (SceneCams \ deleted) \cup {Mesh}
                           \cup {Gcp(k) : k \in 1..MaxGcps}
    /\ is_saved = TRUE /\ is_dirty = FALSE
    /\ filepath = "/data/project.blend"
    /\ output_path = "//project__out/"
    /\ render_filepath = "//project__out/"
    /\ InitCallbackFrame

NextCamPose ==
    \/ CamPoseUpdate_Enter
    \/ CamPoseUpdate_Loop
    \/ CamPoseUpdate_Tail
    \/ CamPoseUpdate_Guarded

SpecCamPose == InitCamPose /\ [][NextCamPose]_vars

\* post_save: a project saved or not, its output path set or not.
InitPostSave ==
    /\ render_cameras = <<Cam(1)>>
    /\ render_cameras_idx = 0
    /\ scene_objects = SceneCams \cup {Mesh} \cup {Gcp(k) : k \in 1..MaxGcps}
    /\ is_saved \in BOOLEAN
    /\ is_dirty \in {~is_saved, TRUE}
    /\ filepath \in (IF is_saved THEN Filepaths ELSE {""})
    /\ output_path \in {"", "/data/out/"}
    /\ render_filepath \in {"/tmp/", "//render/"}
    /\ InitCallbackFrame

NextPostSave ==
    \/ SaveMainfile
    \/ PostSave
    \/ PostSave_Return
    \/ SetOutputPath

\* A handler that has started runs on: the host does not abandon it.
SpecPostSave ==
    /\ InitPostSave
    /\ [][NextPostSave]_vars
    /\ WF_vars(PostSave)
    /\ WF_vars(PostSave_Return)

---------------------------------------------------------------------------
\* Properties of the callbacks.

\* an entry whose camera object is not in scene.objects
Dangling(list) ==
    \E k \in 1..Len(list) : list[k] # None /\ list[k] \notin scene_objects
\* the entries whose camera is in the scene, in their order
Kept(list) == SelectSeq(list, LAMBDA c : c \in scene_objects)
\* cam_pose_update has run once and returned
RanOnce == cb_runs = 1 /\ cb_pc = "idle"

\* C11: after one run of cam_pose_update no entry of render_cameras
\* references a camera that is absent from scene.objects, wherever the
\* deleted cameras stood in the list; the entries whose camera is in the
\* scene are kept in their order, render_cameras_idx is -1 if an entry was
\* removed, and _is_cam_pose_updating is False again.
C11_DeletedCamerasRemoved ==
    RanOnce =>
        /\ ~Dangling(render_cameras)
        /\ Kept(render_cameras) = Kept(cb_pre.render_cameras)
        /\ (Len(render_cameras) < Len(cb_pre.render_cameras)) => render_cameras_idx = -1
        /\ ~_is_cam_pose_updating

\* the save the user asked for last and every handler it started are over
ChainEnded == save_stack = <<>> /\ chain # NoChain
\* what holds in every state of a chain of saves
ChainBounded ==
    /\ Len(save_stack) <= 2
    /\ chain.nested <= 1
    /\ Len(save_stack) = 2 => output_path # ""
    /\ ChainEnded =>
           IF chain.output_path = ""
           THEN /\ chain.nested = 1
                /\ output_path # ""
                /\ render_filepath = output_path
           ELSE /\ chain.nested = 0
                /\ output_path = chain.output_path
                /\ render_filepath = chain.render_filepath

\* C12: post_save terminates.  With output_path empty it sets output_path
\* and render.filepath to a non-empty default and triggers one further save,
\* whose own post_save finds output_path non-empty and does nothing, so the
\* chain ends after exactly one nested save; with output_path non-empty it
\* changes nothing and triggers no save.
C12_PostSaveTerminates ==
    /\ []ChainBounded
    /\ (save_stack # <<>>) ~> (save_stack = <<>>)

\* C12 witness: a project that had no file and no output path was saved as
\* "my scene.blend"; the chain is over after one nested save, both paths are
\* the default made from the file's name.
C12_Witness ==
    /\ ChainEnded
    /\ chain.output_path = "" /\ chain.nested = 1
    /\ filepath = "/data/my scene.blend"
    /\ output_path = "//my-scene__out/"
    /\ render_filepath = "//my-scene__out/"
    /\ ~is_dirty
====
